---- MODULE Spec2Model ----
(***************************************************************************)
(* A model of jvparidon/count-animal-colors: the line deduplicators of     *)
(* deduplicate.py and the archive stripper / corpus joiner of              *)
(* clean_subs.py.  Text is modelled at character level: a Python str is a  *)
(* sequence of one-character strings.                                      *)
(***************************************************************************)
EXTENDS Integers, Sequences, FiniteSets, TLC

VARIABLES
    \* ---- deduplicate.py ----
    op,            \* which function runs: "dedup_file" or "big_dedup_file"
    pc,            \* position in that function
    in_exists,     \* whether in_fname names an existing file
    in_data,       \* content of the file in_fname
    in_file,       \* unread rest of in_file (the read position)
    in_open,       \* in_file handle is open
    n_bins,        \* argument n_bins
    temp,          \* temp[i+1] = content of temp{i}.txt
    filehandles,   \* list filehandles: filehandles[k] = bucket number of the handle
    open_handles,  \* the positions of filehandles whose handle is open
    handle_iter,   \* position of itertools.cycle(filehandles), 0-based
    i,             \* loop variable i of the merge loop
    out_data,      \* content of the file out_fname
    out_open,      \* out_file handle is open
    ret,           \* return value of dedup_file, <<n_lines, n_duplicates>>
    \* ---- clean_subs.py: strip_archive / join_archive ----
    corpus,        \* namelist of corpora/{lang}.zip
    stripped_exists, \* whether corpora/{lang}_stripped.zip exists
    stripped,      \* entries of corpora/{lang}_stripped.zip: [name, src], src the entry the body was made from
    apc,           \* position in strip_archive / join_archive
    func,          \* the function called
    lang,          \* argument lang
    ioformat,      \* argument ioformat
    years,         \* argument years, <<start, end>>
    dirpath,       \* local dirpath, or Unbound
    filepaths,     \* local list filepaths
    opened,        \* the archives and files the call has opened
    written,       \* the entries this call passed to write_zip.writestr
    outfile,       \* names of the entries whose cleaned body this call wrote to out_fname
    total,         \* return value of join_archive
    exc,           \* exception that ended the call
    runs,          \* number of calls made so far
    \* ---- clean_subs.py: strip_upos / strip_lemma ----
    tree,          \* the nodes of the parse tree in document order (tree.iter())
    xpc,           \* "start", or the stripper that has run
    stripped_txt,  \* the str the stripper returned
    \* ---- clean_subs.py: strip_punctuation ----
    ptxt,          \* argument txt
    pformat,       \* argument ioformat
    ppc,           \* number of times strip_punctuation has been applied
    once,          \* strip_punctuation(txt, ioformat)
    twice          \* strip_punctuation(strip_punctuation(txt, ioformat), ioformat)

dedupVars == <<op, pc, in_exists, in_data, in_file, in_open, n_bins, temp,
               filehandles, open_handles, handle_iter, i, out_data, out_open, ret>>

archVars == <<corpus, stripped_exists, stripped, apc, func, lang, ioformat, years,
              dirpath, filepaths, opened, written, outfile, total, exc, runs>>

xmlVars == <<tree, xpc, stripped_txt>>

punctVars == <<ptxt, pformat, ppc, once, twice>>

nonDedupVars == <<archVars, xmlVars, punctVars>>
nonArchVars == <<dedupVars, xmlVars, punctVars>>
nonXmlVars == <<dedupVars, archVars, punctVars>>
nonPunctVars == <<dedupVars, archVars, xmlVars>>

vars == <<dedupVars, archVars, xmlVars, punctVars>>

(***************************************************************************)
(* Bounds                                                                  *)
(***************************************************************************)
MaxLines == 4      \* lines per generated input file
MaxBins == 2       \* largest n_bins tried
MaxEntries == 2    \* entries of the input archive
MaxRuns == 2       \* calls of strip_archive / join_archive in a row
MaxNodes == 3      \* nodes of a parse tree
MaxTxt == 3        \* characters of a text given to strip_punctuation

NL == "\n"
NoRet == <<>>
Unbound == <<"unbound">>     \* a local variable no assignment has run for

\* no function of deduplicate.py is running or has run
DedupIdle ==
    /\ op = "none" /\ pc = "idle" /\ in_exists = FALSE /\ in_data = <<>>
    /\ in_file = <<>> /\ in_open = FALSE /\ n_bins = 1 /\ temp = <<>>
    /\ filehandles = <<>> /\ open_handles = {} /\ handle_iter = 0 /\ i = 0
    /\ out_data = <<>> /\ out_open = FALSE /\ ret = NoRet

\* the locals of strip_archive / join_archive when no call is running
ArchLocalsIdle ==
    /\ apc = "idle" /\ func = "none" /\ lang = <<>> /\ ioformat = <<>>
    /\ years = <<>> /\ dirpath = Unbound /\ filepaths = <<>> /\ opened = {}
    /\ written = <<>> /\ outfile = <<>> /\ total = 0 /\ exc = "none"

ArchIdle ==
    /\ ArchLocalsIdle
    /\ corpus = <<>> /\ stripped_exists = FALSE /\ stripped = <<>> /\ runs = 0

XmlIdle == tree = <<>> /\ xpc = "idle" /\ stripped_txt = <<>>

PunctIdle == ptxt = <<>> /\ pformat = <<>> /\ ppc = 0 /\ once = <<>> /\ twice = <<>>

(***************************************************************************)
(* Python str / list helpers                                               *)
(***************************************************************************)
Min(S) == CHOOSE x \in S : \A y \in S : x <= y

\* positions of the character c in s
Positions(s, c) == {k \in 1..Len(s) : s[k] = c}

\* str.split(c) for a one-character separator c
RECURSIVE SplitOn(_, _)
SplitOn(s, c) ==
    IF Positions(s, c) = {} THEN <<s>>
    ELSE LET k == Min(Positions(s, c))
         IN  <<SubSeq(s, 1, k - 1)>> \o SplitOn(SubSeq(s, k + 1, Len(s)), c)

\* str.split('\n')
Split(s) == SplitOn(s, NL)

\* '\n'.join(lines)
RECURSIVE Join(_)
Join(lines) ==
    IF Len(lines) = 0 THEN <<>>
    ELSE IF Len(lines) = 1 THEN lines[1]
    ELSE lines[1] \o <<NL>> \o Join(Tail(lines))

\* one step of "for line in in_file": the next line, terminator included
NextLine(s) ==
    IF Positions(s, NL) = {} THEN s ELSE SubSeq(s, 1, Min(Positions(s, NL)))

\* set(lines)
ToSet(lines) == {lines[k] : k \in 1..Len(lines)}

\* the orders random.shuffle can leave list(S) in
RECURSIVE Shuffles(_)
Shuffles(S) ==
    IF S = {} THEN {<<>>}
    ELSE UNION {{<<x>> \o p : p \in Shuffles(S \ {x})} : x \in S}

\* next(handle_iter) of itertools.cycle over a list of n handles: the position after pos
CycleNextBroken(pos, n) == IF pos + 1 >= n - 1 THEN 0 ELSE pos + 1
CycleNext(pos, n) == IF pos + 1 = n THEN 0 ELSE pos + 1

\* get_lines(fhandle): <<lines, n_lines, n_duplicates>>
get_lines(data) ==
    LET lines == Split(data)
        n_lines == Len(lines)
        uniq == ToSet(lines)
    IN  <<uniq, n_lines, n_lines - Cardinality(uniq)>>

(***************************************************************************)
(* Input files: up to MaxLines lines drawn from LineSet, the last one with *)
(* or without its line terminator.                                         *)
(***************************************************************************)
LineSet == {<<>>, <<"a">>, <<"b">>, <<"a", "b">>}

RECURSIVE Terminated(_)
Terminated(n) ==
    IF n = 0 THEN {<<>>}
    ELSE {l \o <<NL>> \o f : l \in LineSet, f \in Terminated(n - 1)}

Files == UNION {Terminated(n) : n \in 0..MaxLines}
           \cup UNION {{f \o l : f \in Terminated(n - 1), l \in LineSet \ {<<>>}} : n \in 1..MaxLines}

(***************************************************************************)
(* deduplicate.py                                                          *)
(***************************************************************************)
InitDedup ==
    /\ op \in {"dedup_file", "big_dedup_file"}
    /\ pc = "start"
    /\ in_exists \in BOOLEAN
    /\ in_data \in (IF in_exists THEN Files ELSE {<<>>})
    /\ in_file = <<>>
    /\ in_open = FALSE
    /\ n_bins \in (IF op = "dedup_file" THEN {1} ELSE 1..MaxBins)
    /\ temp = <<>>
    /\ filehandles = <<>>
    /\ open_handles = {}
    /\ handle_iter = 0
    /\ i = 0
    /\ out_data = <<>>
    /\ out_open = FALSE
    /\ ret = NoRet
    /\ ArchIdle /\ XmlIdle /\ PunctIdle

\* dedup_file, in_fname exists: lines 34-40
DedupFile ==
    /\ op = "dedup_file" /\ pc = "start" /\ in_exists
    /\ LET r == get_lines(in_data)
       IN  /\ \E lines \in Shuffles(r[1]) : out_data' = Join(lines)
           /\ ret' = <<r[2], r[3]>>
    /\ pc' = "done"
    /\ UNCHANGED <<op, in_exists, in_data, in_file, in_open, n_bins, temp,
                   filehandles, open_handles, handle_iter, i, out_open>>
    /\ UNCHANGED nonDedupVars

\* dedup_file, open(in_fname, 'r') raises FileNotFoundError: line 34
DedupFileMissing ==
    /\ op = "dedup_file" /\ pc = "start" /\ ~in_exists
    /\ pc' = "raised"
    /\ UNCHANGED <<op, in_exists, in_data, in_file, in_open, n_bins, temp,
                   filehandles, open_handles, handle_iter, i, out_data, out_open, ret>>
    /\ UNCHANGED nonDedupVars

\* big_dedup_file lines 55-58: open the n_bins bucket files for writing
OpenBuckets ==
    /\ op = "big_dedup_file" /\ pc = "start"
    /\ filehandles' = [k \in 1..n_bins |-> k - 1]
    /\ open_handles' = 1..n_bins
    /\ temp' = [k \in 1..n_bins |-> <<>>]
    /\ handle_iter' = 0
    /\ pc' = "open_in"
    /\ UNCHANGED <<op, in_exists, in_data, in_file, in_open, n_bins, i,
                   out_data, out_open, ret>>
    /\ UNCHANGED nonDedupVars

\* line 59: with open(in_fname, 'r') as in_file
OpenInput ==
    /\ pc = "open_in"
    /\ IF in_exists
       THEN /\ in_file' = in_data
            /\ in_open' = TRUE
            /\ pc' = "distribute"
       ELSE /\ pc' = "raised"          \* FileNotFoundError leaves the function
            /\ UNCHANGED <<in_file, in_open>>
    /\ UNCHANGED <<op, in_exists, in_data, n_bins, temp, filehandles,
                   open_handles, handle_iter, i, out_data, out_open, ret>>
    /\ UNCHANGED nonDedupVars

\* lines 60-61: one iteration of "for line in in_file"
WriteLine ==
    /\ pc = "distribute" /\ in_file # <<>>
    /\ LET line == NextLine(in_file)
           b == filehandles[handle_iter + 1] + 1
       IN  /\ temp' = [temp EXCEPT ![b] = @ \o line]
           /\ in_file' = SubSeq(in_file, Len(line) + 1, Len(in_file))
    /\ handle_iter' = CycleNext(handle_iter, Len(filehandles))
    /\ UNCHANGED <<op, pc, in_exists, in_data, in_open, n_bins, filehandles,
                   open_handles, i, out_data, out_open, ret>>
    /\ UNCHANGED nonDedupVars

\* line 60: reading in_file raises (OSError, UnicodeDecodeError); the with
\* statement closes in_file and the exception leaves the function
ReadError ==
    /\ pc = "distribute" /\ in_file # <<>>
    /\ in_open' = FALSE
    /\ pc' = "raised"
    /\ UNCHANGED <<op, in_exists, in_data, in_file, n_bins, temp, filehandles,
                   open_handles, handle_iter, i, out_data, out_open, ret>>
    /\ UNCHANGED nonDedupVars

\* end of the with block of line 59, then lines 62-63
CloseBuckets ==
    /\ pc = "distribute" /\ in_file = <<>>
    /\ in_open' = FALSE
    /\ open_handles' = {}
    /\ pc' = "open_out"
    /\ UNCHANGED <<op, in_exists, in_data, in_file, n_bins, temp, filehandles,
                   handle_iter, i, out_data, out_open, ret>>
    /\ UNCHANGED nonDedupVars

\* line 65: with open(out_fname, 'w') as out_file
OpenOutput ==
    /\ pc = "open_out"
    /\ out_data' = <<>>
    /\ out_open' = TRUE
    /\ i' = 0
    /\ pc' = "merge"
    /\ UNCHANGED <<op, in_exists, in_data, in_file, in_open, n_bins, temp,
                   filehandles, open_handles, handle_iter, ret>>
    /\ UNCHANGED nonDedupVars

\* lines 66-71: one iteration of the merge loop
MergeBucket ==
    /\ pc = "merge" /\ i < n_bins
    /\ \E lines \in Shuffles(ToSet(Split(temp[i + 1]))) :
          out_data' = out_data \o Join(lines)
    /\ i' = i + 1
    /\ UNCHANGED <<op, pc, in_exists, in_data, in_file, in_open, n_bins, temp,
                   filehandles, open_handles, handle_iter, out_open, ret>>
    /\ UNCHANGED nonDedupVars

\* end of the with block of line 65, line 72
FinishBig ==
    /\ pc = "merge" /\ i = n_bins
    /\ out_open' = FALSE
    /\ pc' = "done"
    /\ UNCHANGED <<op, in_exists, in_data, in_file, in_open, n_bins, temp,
                   filehandles, open_handles, handle_iter, i, out_data, ret>>
    /\ UNCHANGED nonDedupVars

NextDedup ==
    \/ DedupFile
    \/ DedupFileMissing
    \/ OpenBuckets
    \/ OpenInput
    \/ WriteLine
    \/ ReadError
    \/ CloseBuckets
    \/ OpenOutput
    \/ MergeBucket
    \/ FinishBig

SpecDedup == InitDedup /\ [][NextDedup]_vars

(***************************************************************************)
(* Claims about deduplicate.py                                             *)
(***************************************************************************)
\* the lines of a text file, in order, each with its terminator (what iterating
\* the file yields)
RECURSIVE ReadLines(_)
ReadLines(s) ==
    IF s = <<>> THEN <<>>
    ELSE <<NextLine(s)>> \o ReadLines(SubSeq(s, Len(NextLine(s)) + 1, Len(s)))

StripNL(l) == IF l # <<>> /\ l[Len(l)] = NL THEN SubSeq(l, 1, Len(l) - 1) ELSE l

\* the lines of a text file without their terminators
LinesOf(s) == [k \in 1..Len(ReadLines(s)) |-> StripNL(ReadLines(s)[k])]

\* how often the line l occurs in the sequence of lines ls
Count(ls, l) == Cardinality({k \in 1..Len(ls) : ls[k] = l})

\* concatenation of those of ls[1..n] whose zero-based index is k modulo m
RECURSIVE Every(_, _, _, _)
Every(ls, n, k, m) ==
    IF n = 0 THEN <<>>
    ELSE Every(ls, n - 1, k, m) \o (IF (n - 1) % m = k THEN ls[n] ELSE <<>>)

Distributing == op = "big_dedup_file" /\ pc \in {"distribute", "open_out", "merge", "done"}

\* C1: in big_dedup_file the line at zero-based input index i is written to
\* bucket i mod n_bins and to no other, and every bucket holds its lines in
\* input order: at any moment bucket k holds exactly the lines read so far
\* whose index is k modulo n_bins, in input order.
C1_RoundRobin ==
    Distributing =>
        LET all == ReadLines(in_data)
            nread == Len(all) - Len(ReadLines(in_file))
        IN  \A k \in 0..(n_bins - 1) : temp[k + 1] = Every(all, nread, k, n_bins)

\* C1 witness: n_bins = 2, input [a, b, a, ab]: bucket 0 got [a, a], bucket 1 got [b, ab]
C1_Witness ==
    /\ op = "big_dedup_file" /\ pc = "done" /\ n_bins = 2
    /\ in_data = <<"a", NL, "b", NL, "a", NL, "a", "b", NL>>
    /\ temp = << <<"a", NL, "a", NL>>, <<"b", NL, "a", "b", NL>> >>

\* C2: dedup_file returns (total, duplicates) with total the number of lines
\* of the file and duplicates = total - number of distinct lines, and the
\* output holds each distinct input line exactly once and nothing else.
C2_ExactDedup ==
    (op = "dedup_file" /\ pc = "done") =>
        LET inl == LinesOf(in_data)
            outl == LinesOf(out_data)
        IN  /\ ret = <<Len(inl), Len(inl) - Cardinality(ToSet(inl))>>
            /\ ToSet(outl) = ToSet(inl)
            /\ \A l \in ToSet(outl) : Count(outl, l) = 1

\* C3: in the output of big_dedup_file no line occurs more than n_bins times.
C3_AtMostNBinsCopies ==
    (op = "big_dedup_file" /\ pc = "done") =>
        \A l \in ToSet(LinesOf(out_data)) : Count(LinesOf(out_data), l) <= n_bins

\* C4: on every exit path of big_dedup_file, the raising ones included, every
\* bucket file handle that was opened has been closed.
C4_HandlesClosedOnExit ==
    (op = "big_dedup_file" /\ pc \in {"done", "raised"}) => open_handles = {}

\* C10: every line of big_dedup_file's output is a line of the input: the
\* bucket results appended one after another never merge two lines into a
\* line that did not occur in the input (n_bins >= 2).  Blank lines are left
\* out of the comparison, so only a merged line can violate it.
C10_NoMergedLine ==
    (op = "big_dedup_file" /\ pc = "done" /\ n_bins >= 2) =>
        \A l \in ToSet(LinesOf(out_data)) : l # <<>> => l \in ToSet(LinesOf(in_data))

(***************************************************************************)
(* clean_subs.py: str helpers                                              *)
(***************************************************************************)
\* str.startswith / str.endswith
StartsWith(s, pre) == Len(pre) <= Len(s) /\ SubSeq(s, 1, Len(pre)) = pre
EndsWith(s, suf) == Len(suf) <= Len(s) /\ SubSeq(s, Len(s) - Len(suf) + 1, Len(s)) = suf

\* str.replace(old, new): every non-overlapping occurrence, left to right
RECURSIVE Replace(_, _, _)
Replace(s, old, new) ==
    IF s = <<>> THEN <<>>
    ELSE IF StartsWith(s, old)
         THEN new \o Replace(SubSeq(s, Len(old) + 1, Len(s)), old, new)
         ELSE <<s[1]>> \o Replace(Tail(s), old, new)

\* int(s) of a string of decimal digits
Digits == <<"0", "1", "2", "3", "4", "5", "6", "7", "8", "9">>
DigitVal(c) == (CHOOSE k \in 1..Len(Digits) : Digits[k] = c) - 1
RECURSIVE ToInt(_)
ToInt(s) ==
    IF s = <<>> THEN 0 ELSE 10 * ToInt(SubSeq(s, 1, Len(s) - 1)) + DigitVal(s[Len(s)])

\* the characters of the model in code point order, for comparing str
CodePoints == <<".", "/"
              , "0", "1", "2", "3", "4", "5", "6", "7", "8", "9"
              , "O", "S"
              , "a", "b", "c", "d", "e", "f", "g", "h", "i", "j", "k", "l", "m"
              , "n", "o", "p", "q", "r", "s", "t", "u", "v", "w", "x", "y", "z">>
Ord(c) == CHOOSE k \in 1..Len(CodePoints) : CodePoints[k] = c

\* s < t for str
RECURSIVE StrLess(_, _)
StrLess(s, t) ==
    IF t = <<>> THEN FALSE
    ELSE IF s = <<>> THEN TRUE
    ELSE IF s[1] = t[1] THEN StrLess(Tail(s), Tail(t))
    ELSE Ord(s[1]) < Ord(t[1])

\* sorted(l) for a list of str
RECURSIVE Insert(_, _)
Insert(x, l) ==
    IF l = <<>> THEN <<x>>
    ELSE IF StrLess(x, l[1]) THEN <<x>> \o l
    ELSE <<l[1]>> \o Insert(x, Tail(l))
RECURSIVE Sorted(_)
Sorted(l) == IF l = <<>> THEN <<>> ELSE Insert(l[Len(l)], Sorted(SubSeq(l, 1, Len(l) - 1)))

\* os.path.join(a, b) for a relative b
PathJoin(a, b) == a \o <<"/">> \o b

(***************************************************************************)
(* clean_subs.py: strip_archive / join_archive                             *)
(***************************************************************************)
xml == <<"x", "m", "l">>
txt == <<"t", "x", "t">>
upos == <<"u", "p", "o", "s">>
lemma == <<"l", "e", "m", "m", "a">>
viz == <<"v", "i", "z">>
nfo == <<"n", "f", "o">>
OpenSubtitles == <<"O", "p", "e", "n", "S", "u", "b", "t", "i", "t", "l", "e", "s">>
raw == <<"r", "a", "w">>
parsed == <<"p", "a", "r", "s", "e", "d">>
en == <<"e", "n">>
nl == <<"n", "l">>

\* the values argparse lets --ioformat take (choices=...)
Formats == {txt, lemma, upos, viz}

\* lines 93-96 and 153-156: the value of dirpath after the if/elif
DirPath(fmt) ==
    IF fmt = txt THEN PathJoin(OpenSubtitles, raw)
    ELSE IF fmt \in {upos, lemma} THEN PathJoin(OpenSubtitles, parsed)
    ELSE Unbound

\* y in range(*years)
InRangeClosed(y, yrs) == yrs[1] <= y /\ y <= yrs[2]
InRange(y, yrs) == yrs[1] <= y /\ y < yrs[2]

\* lines 98-102 and 158-162, the loop over namelist(): the test of one filepath
Selects(filepath, suffix, dp, lg, yrs) ==
    /\ EndsWith(filepath, suffix)
    /\ StartsWith(filepath, PathJoin(dp, lg))
    /\ InRange(ToInt(SplitOn(filepath, "/")[4]), yrs)

\* the loop reads dirpath for the first filepath that passes the endswith test
SelectRaises(names, suffix, dp) ==
    dp = Unbound /\ \E k \in 1..Len(names) : EndsWith(names[k], suffix)

\* the list filepaths after the loop
SelectPaths(names, suffix, dp, lg, yrs) ==
    SelectSeq(names, LAMBDA f : Selects(f, suffix, dp, lg, yrs))

\* line 107: the name of the entry written for filepath
OutName(filepath, fmt) == Replace(filepath, xml, fmt)

\* entry paths <root>/<kind>/<lang>/<year>/<dir>/<id>.<ext>
Path(kind, lg, year, dir, ext) ==
    OpenSubtitles \o <<"/">> \o kind \o <<"/">> \o lg \o <<"/">> \o year
      \o <<"/">> \o dir \o <<"/", "1", ".">> \o ext

Y1999 == <<"1", "9", "9", "9">>
Y2000 == <<"2", "0", "0", "0">>
Y2001 == <<"2", "0", "0", "1">>

Universe ==
    {Path(k, en, y, <<"7">>, xml) : k \in {raw, parsed}, y \in {Y1999, Y2000, Y2001}}
      \cup {Path(raw, en, Y2000, xml, xml), Path(raw, nl, Y2000, <<"7">>, xml),
            Path(raw, en, Y2000, <<"7">>, nfo)}

\* archives: lists of up to MaxEntries distinct paths
RECURSIVE NameLists(_)
NameLists(n) ==
    IF n = 0 THEN {<<>>}
    ELSE NameLists(n - 1) \cup
         {Append(l, x) : l \in {m \in NameLists(n - 1) : Len(m) = n - 1},
                         x \in Universe}

Distinct(l) == \A j, k \in 1..Len(l) : j # k => l[j] # l[k]

YearArgs == {<<1999, 2001>>, <<2000, 2001>>}

InitArchive ==
    /\ DedupIdle /\ XmlIdle /\ PunctIdle
    /\ ArchLocalsIdle
    /\ corpus \in {l \in NameLists(MaxEntries) : Distinct(l)}
    /\ stripped_exists = FALSE
    /\ stripped = <<>>
    /\ runs = 0

\* strip_archive lines 91-96: open both archives, choose dirpath
StripOpen ==
    /\ apc = "idle" /\ runs < MaxRuns
    /\ \E fmt \in Formats, yrs \in YearArgs :
          /\ ioformat' = fmt
          /\ years' = yrs
          /\ dirpath' = DirPath(fmt)
    /\ func' = "strip_archive"
    /\ lang' = en
    /\ opened' = {"read_zip", "write_zip"}
    /\ stripped_exists' = TRUE         \* mode 'a' creates the archive when missing
    /\ runs' = runs + 1
    /\ apc' = "select"
    /\ UNCHANGED <<corpus, stripped, filepaths, written, outfile, total, exc>>
    /\ UNCHANGED nonArchVars

\* join_archive lines 151-156: open the stripped archive, choose dirpath
JoinOpen ==
    /\ apc = "idle" /\ runs < MaxRuns
    /\ \E fmt \in Formats, yrs \in YearArgs :
          /\ ioformat' = fmt
          /\ years' = yrs
          /\ dirpath' = IF stripped_exists THEN DirPath(fmt) ELSE Unbound
    /\ func' = "join_archive"
    /\ lang' = en
    /\ runs' = runs + 1
    /\ IF stripped_exists
       THEN /\ opened' = {"read_zip"}
            /\ apc' = "select"
            /\ exc' = exc
       ELSE /\ opened' = {}            \* zipfile.ZipFile(..., 'r') raises
            /\ apc' = "raised"
            /\ exc' = "FileNotFoundError"
    /\ UNCHANGED <<corpus, stripped_exists, stripped, filepaths, written, outfile, total>>
    /\ UNCHANGED nonArchVars

\* the entry names of the archive the call reads
Namelist ==
    IF func = "strip_archive" THEN corpus
    ELSE [k \in 1..Len(stripped) |-> stripped[k].name]

\* the suffix the call tests filepath.endswith with: lines 99 and 159
Suffix == IF func = "strip_archive" THEN xml ELSE ioformat

\* lines 97-102 and 157-162
Select ==
    /\ apc = "select"
    /\ IF SelectRaises(Namelist, Suffix, dirpath)
       THEN /\ exc' = "UnboundLocalError"
            /\ apc' = "raised"
            /\ UNCHANGED filepaths
       ELSE /\ filepaths' = SelectPaths(Namelist, Suffix, dirpath, lang, years)
            /\ apc' = "write"
            /\ UNCHANGED exc
    /\ UNCHANGED <<corpus, stripped_exists, stripped, func, lang, ioformat, years,
                   dirpath, opened, written, outfile, total, runs>>
    /\ UNCHANGED nonArchVars

\* strip_archive lines 103-108
StripWrite ==
    /\ apc = "write" /\ func = "strip_archive"
    /\ LET new == [k \in 1..Len(filepaths) |->
                      [name |-> OutName(Sorted(filepaths)[k], ioformat),
                       src |-> Sorted(filepaths)[k]]]
       IN  /\ stripped' = stripped \o new
           /\ written' = new
    /\ apc' = "returned"
    /\ UNCHANGED <<corpus, stripped_exists, func, lang, ioformat, years, dirpath,
                   filepaths, opened, outfile, total, exc, runs>>
    /\ UNCHANGED nonArchVars

\* join_archive lines 163-174
JoinWrite ==
    /\ apc = "write" /\ func = "join_archive"
    /\ total' = Len(filepaths)
    /\ opened' = opened \cup {"outfile"}
    /\ outfile' = filepaths
    /\ apc' = "returned"
    /\ UNCHANGED <<corpus, stripped_exists, stripped, func, lang, ioformat, years,
                   dirpath, filepaths, written, exc, runs>>
    /\ UNCHANGED nonArchVars

\* the call is over (it returned or raised): its locals are gone
Return ==
    /\ apc \in {"returned", "raised"}
    /\ apc' = "idle" /\ func' = "none" /\ lang' = <<>> /\ ioformat' = <<>>
    /\ years' = <<>> /\ dirpath' = Unbound /\ filepaths' = <<>> /\ opened' = {}
    /\ written' = <<>> /\ outfile' = <<>> /\ total' = 0 /\ exc' = "none"
    /\ UNCHANGED <<corpus, stripped_exists, stripped, runs>>
    /\ UNCHANGED nonArchVars

NextArchive ==
    \/ StripOpen
    \/ JoinOpen
    \/ Select
    \/ StripWrite
    \/ JoinWrite
    \/ Return

SpecArchive == InitArchive /\ [][NextArchive]_vars

(***************************************************************************)
(* Claims about strip_archive / join_archive                               *)
(***************************************************************************)
\* the integer in the 4th path segment of an entry path
YearOf(path) == ToInt(SplitOn(path, "/")[4])

WithinYears(path) == years[1] <= YearOf(path) /\ YearOf(path) < years[2]

\* the entry has the extension and the directory prefix the call looks for
Matches(path) ==
    /\ EndsWith(path, Suffix)
    /\ dirpath # Unbound
    /\ StartsWith(path, dirpath \o <<"/">> \o lang)

Members(l) == {l[k] : k \in 1..Len(l)}

\* what C5 says of the selection and of the joined file (both hold of the code)
C5_Selection ==
    /\ apc \in {"write", "returned"} =>
          /\ \A path \in Members(filepaths) : WithinYears(path)
          /\ \A path \in Members(Namelist) :
                (Matches(path) /\ WithinYears(path)) => path \in Members(filepaths)
    /\ (apc = "returned" /\ func = "join_archive") =>
          /\ \A path \in Members(outfile) : WithinYears(path)
          /\ \A path \in Members(Namelist) :
                (Matches(path) /\ WithinYears(path)) => path \in Members(outfile)

C8_OnlyExtensionReplaced ==
    (apc = "returned" /\ func = "strip_archive") =>
        \A e \in Members(written) :
            e.name = SubSeq(e.src, 1, Len(e.src) - Len(xml)) \o ioformat

\* C9: a format selection never causes a failure after I/O has begun: when
\* the call fails for want of a source directory for the format, no archive
\* or file has been opened.
C9_NoFormatFailureAfterOpen ==
    exc = "UnboundLocalError" => opened = {}

(***************************************************************************)
(* clean_subs.py: strip_upos / strip_lemma                                 *)
(***************************************************************************)
None == <<"None">>     \* Python's None: a node without text, node.get of a missing attribute

\* f'{v}' of a str or None
Fmt(v) == IF v = None THEN <<"N", "o", "n", "e">> ELSE v

\* lines 17-20: what strip_upos appends for one node
UposOfNoBreak(node) ==
    IF node.tag = "w" THEN Fmt(node.text) \o <<"_">> \o Fmt(node.upos) \o <<" ">>
    ELSE <<>>
UposOf(node) ==
    (IF node.tag = "s" THEN <<NL>> ELSE <<>>)
      \o (IF node.tag = "w" THEN Fmt(node.text) \o <<"_">> \o Fmt(node.upos) \o <<" ">>
          ELSE <<>>)

\* lines 28-31: what strip_lemma appends for one node
LemmaOf(node) ==
    (IF node.tag = "s" THEN <<NL>> ELSE <<>>)
      \o (IF node.tag = "w" THEN Fmt(node.lemma) \o <<"_">> \o Fmt(node.upos) \o <<" ">>
          ELSE <<>>)

\* strip_upos(tree): lines 15-21
RECURSIVE strip_upos(_)
strip_upos(nodes) ==
    IF nodes = <<>> THEN <<>> ELSE UposOf(nodes[1]) \o strip_upos(Tail(nodes))

\* strip_lemma(tree): lines 26-32
RECURSIVE strip_lemma(_)
strip_lemma(nodes) ==
    IF nodes = <<>> THEN <<>> ELSE LemmaOf(nodes[1]) \o strip_lemma(Tail(nodes))

cat == <<"c", "a", "t">>
sat == <<"s", "a", "t">>
sit == <<"s", "i", "t">>
NOUN == <<"N", "O", "U", "N">>
VERB == <<"V", "E", "R", "B">>

Node(tag, text, up, lem) == [tag |-> tag, text |-> text, upos |-> up, lemma |-> lem]
SNode == Node("s", None, None, None)
CatNode == Node("w", cat, NOUN, cat)
SatNode == Node("w", sat, VERB, sit)

NodeSet == {Node("document", None, None, None), SNode, CatNode, SatNode,
            Node("time", None, None, None), Node("w", None, None, None)}

Trees == UNION {[1..n -> NodeSet] : n \in 1..MaxNodes}

InitXml ==
    /\ DedupIdle /\ ArchIdle /\ PunctIdle
    /\ tree \in Trees
    /\ xpc = "start"
    /\ stripped_txt = <<>>

\* strip_xml with ioformat == 'upos': lines 71-72
StripUpos ==
    /\ xpc = "start"
    /\ stripped_txt' = strip_upos(tree)
    /\ xpc' = "strip_upos"
    /\ UNCHANGED tree
    /\ UNCHANGED nonXmlVars

\* strip_xml with ioformat == 'lemma': lines 73-74
StripLemma ==
    /\ xpc = "start"
    /\ stripped_txt' = strip_lemma(tree)
    /\ xpc' = "strip_lemma"
    /\ UNCHANGED tree
    /\ UNCHANGED nonXmlVars

NextXml ==
    \/ StripUpos
    \/ StripLemma

SpecXml == InitXml /\ [][NextXml]_vars

(***************************************************************************)
(* Claims about strip_upos / strip_lemma                                   *)
(***************************************************************************)
OneSentence == <<SNode, CatNode, SatNode>>

CatNounSatVerb == cat \o <<"_">> \o NOUN \o <<" ">> \o sat \o <<"_">> \o VERB \o <<" ">>
CatNounSitVerb == cat \o <<"_">> \o NOUN \o <<" ">> \o sit \o <<"_">> \o VERB \o <<" ">>

\* the word nodes among nodes, in document order
Words(nodes) == SelectSeq(nodes, LAMBDA n : n.tag = "w")
Sentences(nodes) == SelectSeq(nodes, LAMBDA n : n.tag = "s")

\* "<form>_<upos> " per word node, concatenated in order
RECURSIVE Tagged(_, _)
Tagged(ws, lemmatized) ==
    IF ws = <<>> THEN <<>>
    ELSE Fmt(IF lemmatized THEN ws[1].lemma ELSE ws[1].text) \o <<"_">>
           \o Fmt(ws[1].upos) \o <<" ">> \o Tagged(Tail(ws), lemmatized)

NoBreaks(s) == SelectSeq(s, LAMBDA c : c # NL)

\* C6 as stated: for the one-sentence document, strip_upos produces exactly
\* "cat_NOUN sat_VERB " and strip_lemma exactly "cat_NOUN sit_VERB ".
C6_Original ==
    tree = OneSentence =>
        /\ xpc = "strip_upos" => stripped_txt = CatNounSatVerb
        /\ xpc = "strip_lemma" => stripped_txt = CatNounSitVerb

\* C6 as amended: for the one-sentence document, strip_upos produces a line
\* break followed by "cat_NOUN sat_VERB " and strip_lemma a line break
\* followed by "cat_NOUN sit_VERB "; in general the output is one line break
\* per sentence node and, in document order, "<form>_<upos> " per word node
\* (the lemma as the form for strip_lemma), the line break of a sentence
\* standing before the output of the nodes that follow it.
C6_TagEncoding ==
    xpc \in {"strip_upos", "strip_lemma"} =>
        /\ tree = OneSentence =>
              stripped_txt = <<NL>> \o (IF xpc = "strip_upos" THEN CatNounSatVerb
                                        ELSE CatNounSitVerb)
        /\ NoBreaks(stripped_txt) = Tagged(Words(tree), xpc = "strip_lemma")
        /\ Len(stripped_txt) - Len(NoBreaks(stripped_txt)) = Len(Sentences(tree))
        /\ \A k \in 1..Len(tree) : tree[k].tag = "s" =>
              stripped_txt[Len(Tagged(Words(SubSeq(tree, 1, k)), xpc = "strip_lemma"))
                             + Len(Sentences(SubSeq(tree, 1, k)))] = NL

\* C6 witness: strip_upos has run on the one-sentence document
C6_Witness ==
    /\ tree = OneSentence /\ xpc = "strip_upos"
    /\ stripped_txt = <<NL>> \o CatNounSatVerb

(***************************************************************************)
(* clean_subs.py: strip_punctuation                                        *)
(***************************************************************************)
\* \s, str.isspace
IsSpace(c) == c \in {" ", NL, "\t"}

\* str.isalnum, for the characters of the model
IsAlnum(c) ==
    c \in {"a", "b", "c", "d", "e", "f", "g", "h", "i", "j", "k", "l", "m",
           "n", "o", "p", "q", "r", "s", "t", "u", "v", "w", "x", "y", "z",
           "H", "T", "P", "N", "O", "U", "V", "E", "R", "B", "S",
           "0", "1", "2", "3", "4", "5", "6", "7", "8", "9"}

\* re.IGNORECASE, for the letters of 'http'
Lower(c) == IF c = "H" THEN "h" ELSE IF c = "T" THEN "t" ELSE IF c = "P" THEN "p" ELSE c

\* the length of the longest prefix of s whose characters are all (space = TRUE)
\* or none (space = FALSE) whitespace
RECURSIVE RunLen(_, _)
RunLen(s, space) ==
    IF s = <<>> \/ IsSpace(s[1]) # space THEN 0 ELSE 1 + RunLen(Tail(s), space)

\* (r'<.*?>', ''): '.' does not match a newline
TagEnds(s) == {k \in 2..Len(s) : s[k] = ">" /\ \A j \in 2..(k - 1) : s[j] # NL}
RECURSIVE SubTags(_)
SubTags(s) ==
    IF s = <<>> THEN <<>>
    ELSE IF s[1] = "<" /\ TagEnds(s) # {}
         THEN SubTags(SubSeq(s, Min(TagEnds(s)) + 1, Len(s)))
         ELSE <<s[1]>> \o SubTags(Tail(s))

\* (r'http.*?(?:[\s\n\]]|$)', ''): up to and including the first whitespace
\* or ']', else up to the end of the string
IsHttp(s) ==
    Len(s) >= 4 /\ [k \in 1..4 |-> Lower(s[k])] = <<"h", "t", "t", "p">>
LinkEnds(s) == {k \in 5..Len(s) : IsSpace(s[k]) \/ s[k] = "]"}
RECURSIVE SubLinks(_)
SubLinks(s) ==
    IF s = <<>> THEN <<>>
    ELSE IF IsHttp(s)
         THEN IF LinkEnds(s) = {} THEN <<>>
              ELSE SubLinks(SubSeq(s, Min(LinkEnds(s)) + 1, Len(s)))
         ELSE <<s[1]>> \o SubLinks(Tail(s))

\* (r'\s\(.*?\)', '')
ParenEnds(s) == {k \in 3..Len(s) : s[k] = ")" /\ \A j \in 3..(k - 1) : s[j] # NL}
RECURSIVE SubParens(_)
SubParens(s) ==
    IF s = <<>> THEN <<>>
    ELSE IF Len(s) >= 2 /\ IsSpace(s[1]) /\ s[2] = "(" /\ ParenEnds(s) # {}
         THEN SubParens(SubSeq(s, Min(ParenEnds(s)) + 1, Len(s)))
         ELSE <<s[1]>> \o SubParens(Tail(s))

\* (r'([^\s]{2,})[\.\!\?\:\;]+?[\s\n]|$', '\\1\n').  The first alternative
\* matches at the head of s when the run of non-whitespace there has at least
\* three characters, ends with one of .!?:; and is followed by a whitespace
\* character: group 1 is the run without its last character.  The second
\* alternative, '$', matches empty at the end of the string and before a
\* final newline; group 1 is then unset and expands to ''.
IsStop(c) == c \in {".", "!", "?", ":", ";"}
RECURSIVE SubStops(_)
SubStops(s) ==
    IF s = <<>> THEN <<NL>>
    ELSE LET r == RunLen(s, FALSE)
         IN  IF r >= 3 /\ r < Len(s) /\ IsStop(s[r])
             THEN SubSeq(s, 1, r - 1) \o <<NL>> \o SubStops(SubSeq(s, r + 2, Len(s)))
             ELSE IF s = <<NL>> THEN <<NL, NL, NL>>
             ELSE <<s[1]>> \o SubStops(Tail(s))

\* (r"[-{en dash}{em dash}/']", ' '); "ndash" and "mdash" stand for the two
\* non-ASCII characters
IsDash(c) == c \in {"-", "ndash", "mdash", "/", "'"}
SubDashes(s) == [k \in 1..Len(s) |-> IF IsDash(s[k]) THEN " " ELSE s[k]]

\* (r'\s*\n\s*', '\n'): a maximal run of whitespace that holds a newline
RECURSIVE SubBlank(_)
SubBlank(s) ==
    IF s = <<>> THEN <<>>
    ELSE LET r == RunLen(s, TRUE)
         IN  IF r >= 1 /\ \E k \in 1..r : s[k] = NL
             THEN <<NL>> \o SubBlank(SubSeq(s, r + 1, Len(s)))
             ELSE <<s[1]>> \o SubBlank(Tail(s))

\* (r'\s{2,}', ' ')
RECURSIVE SubSpaces(_)
SubSpaces(s) ==
    IF s = <<>> THEN <<>>
    ELSE LET r == RunLen(s, TRUE)
         IN  IF r >= 2
             THEN <<" ">> \o SubSpaces(SubSeq(s, r + 1, Len(s)))
             ELSE <<s[1]>> \o SubSpaces(Tail(s))

\* lines 127-129: the seven substitutions in order
Regeces(s) ==
    SubSpaces(SubBlank(SubDashes(SubStops(SubParens(SubLinks(SubTags(s)))))))

\* lines 130-135: the character filter
Keeps(c, fmt) ==
    IF fmt \in {lemma, upos} THEN IsAlnum(c) \/ IsSpace(c) \/ c = "_"
    ELSE IsAlnum(c) \/ IsSpace(c)

strip_punctuation(s, fmt) == SelectSeq(Regeces(s), LAMBDA c : Keeps(c, fmt))

\* texts: up to MaxTxt pieces, one after another
Pieces == {<<"a">>, <<" ">>, <<".">>, <<"-">>, <<NL>>, <<"<">>, <<">">>, <<"(">>,
           <<")">>, <<"_">>, <<"h", "t", "t", "p">>}

RECURSIVE Texts(_)
Texts(n) ==
    IF n = 0 THEN {<<>>}
    ELSE Texts(n - 1) \cup {t \o q : t \in Texts(n - 1), q \in Pieces}

InitPunct ==
    /\ DedupIdle /\ ArchIdle /\ XmlIdle
    /\ ptxt \in Texts(MaxTxt)
    /\ pformat \in Formats
    /\ ppc = 0
    /\ once = <<>>
    /\ twice = <<>>

\* strip_punctuation(txt, ioformat)
Apply ==
    /\ ppc = 0
    /\ once' = strip_punctuation(ptxt, pformat)
    /\ ppc' = 1
    /\ UNCHANGED <<ptxt, pformat, twice>>
    /\ UNCHANGED nonPunctVars

\* strip_punctuation applied to its own result
ApplyAgain ==
    /\ ppc = 1
    /\ twice' = strip_punctuation(once, pformat)
    /\ ppc' = 2
    /\ UNCHANGED <<ptxt, pformat, once>>
    /\ UNCHANGED nonPunctVars

NextPunct ==
    \/ Apply
    \/ ApplyAgain

SpecPunct == InitPunct /\ [][NextPunct]_vars

(***************************************************************************)
(* Claims about strip_punctuation                                          *)
(***************************************************************************)
\* C7: strip_punctuation is idempotent: applying it to its own result, with
\* the same format, gives that result again.
C7_Idempotent == ppc = 2 => twice = once

(***************************************************************************)
(* The whole program: any one of the four parts runs                       *)
(***************************************************************************)
Init == InitDedup \/ InitArchive \/ InitXml \/ InitPunct

Next == NextDedup \/ NextArchive \/ NextXml \/ NextPunct

Spec == Init /\ [][Next]_vars

====
